---- MODULE Spec2Model ----
(***************************************************************************)
(* micro-swiss: the build-time module discovery pipeline (build.rs) and    *)
(* the runtime registry and dispatch loop (src/main.rs).                   *)
(*                                                                         *)
(* Text is modelled as a sequence of atoms.  An atom is either one         *)
(* character of an identifier ("A", "B", "x", "y"), a blank " ", or one of *)
(* the fixed character runs the code searches for ("pub struct ",          *)
(* "impl ToolModule for ", ".arg(", "Arg::new(", the double quote, ";").   *)
(* A file is a sequence of lines, a line a sequence of atoms.              *)
(*                                                                         *)
(* Five specifications: Spec, one build of a small tree followed by one    *)
(* run of the program; SpecBuild, the build script run again on the same   *)
(* tree; SpecRepo, one run of the program built from the modules of the    *)
(* repository; SpecLib, the library functions of the modules called on the *)
(* strings of a bounded set; SpecSession, the interactive session of       *)
(* db_connect reading a bounded standard input.                            *)
(***************************************************************************)
EXTENDS Integers, Sequences, FiniteSets, TLC

VARIABLES
    tree,        \* the entries of src/modules, fixed for the whole behaviour
    bpc,         \* build script position: "start","scan","built","panicked"
                 \*   (in the scan), "write_failed" (panicked in the generator)
    order,       \* the order in which fs::read_dir yields the entries in this run
    pos,         \* index into order of the next entry of the scan loop
    modules,     \* Vec<ModuleInfo> filled by scan_modules_directory
    modules_rs,  \* OUT_DIR/modules.rs, a sequence of lines
    generated,   \* OUT_DIR/generated_modules.rs, a sequence of lines
    runs,        \* number of build runs that reached the generator
    prev,        \* the artifacts of the previous completed build run
    rpc,         \* position of main: "off","configure","parse","execute","check",
                 \*   "finish","done","failed","exited","parse_exit"
    registry,    \* ModuleRegistry.modules
    cmd,         \* the clap Command: the argument identifiers defined so far
    matches,     \* ArgMatches: the identifiers present in the parsed input
    idx,         \* index of the loop over registry.get_modules()
    executed,    \* the local `executed` of main
    exit_code,   \* the exit status of the process, -1 while it runs
    stderr,      \* the lines main wrote with eprintln!
    events,      \* what happened so far in the process, in order
    input,       \* the &str a library function is called on, as code points
    encoded,     \* the String an encoder returned for input
    result,      \* what the last library call returned
    ppc,         \* which library call was made last, "off" before any
    spc,         \* position of db_connect's execute: "off", "prompt", "read",
                 \*   "dispatch", "returned_ok", "returned_err"
    stdin,       \* the lines of standard input not read yet, as code points
    sessions,    \* the keys of the DB_SESSIONS map
    query,       \* the trimmed line read last
    printed      \* what the session wrote apart from its prompts, in order

bvars == <<tree, bpc, order, pos, modules, modules_rs, generated, runs, prev>>
rvars == <<rpc, registry, cmd, matches, idx, executed, exit_code, stderr, events>>
pvars == <<input, encoded, result, ppc>>
svars == <<spc, stdin, sessions, query, printed>>
vars == <<tree, bpc, order, pos, modules, modules_rs, generated, runs, prev,
          rpc, registry, cmd, matches, idx, executed, exit_code, stderr, events,
          input, encoded, result, ppc,
          spc, stdin, sessions, query, printed>>

(***************************************************************************)
(* Bounds                                                                  *)
(***************************************************************************)
MaxDirs == 2
MaxRuns == 2
\* the most identifiers present in one parsed input
MaxPresent == 2
\* the most characters of a string given to a library function
MaxLen == 3
\* the most lines on the standard input of a session
MaxLines == 2

(***************************************************************************)
(* Option<T>                                                               *)
(***************************************************************************)
None == [some |-> FALSE]
Some(v) == [some |-> TRUE, val |-> v]

(***************************************************************************)
(* str helpers, on sequences of atoms                                      *)
(***************************************************************************)
Q == "\""

StartsWith(s, p) == Len(p) <= Len(s) /\ SubSeq(s, 1, Len(p)) = p

EndsWith(s, p) == Len(p) <= Len(s) /\ SubSeq(s, Len(s) - Len(p) + 1, Len(s)) = p

\* str::find: the 1-based index of the first occurrence of p in s, 0 for None
Find(s, p) ==
    LET hits == {i \in 1..(Len(s) - Len(p) + 1) : SubSeq(s, i, i + Len(p) - 1) = p}
    IN  IF hits = {} THEN 0 ELSE CHOOSE i \in hits : \A j \in hits : i <= j

Contains(s, p) == Find(s, p) # 0

\* str::trim
Trim(s) ==
    LET ink == {i \in 1..Len(s) : s[i] # " "}
    IN  IF ink = {} THEN <<>>
        ELSE SubSeq(s, CHOOSE i \in ink : \A j \in ink : i <= j,
                       CHOOSE i \in ink : \A j \in ink : i >= j)

\* String::contains on a whole file: the patterns searched for hold no line
\* break, so an occurrence lies inside one (untrimmed) line
ContentContains(content, p) == \E k \in 1..Len(content) : Contains(content[k], p)

RECURSIVE Concat(_)
Concat(ss) == IF ss = <<>> THEN <<>> ELSE Head(ss) \o Concat(Tail(ss))

(***************************************************************************)
(* The file system under src/modules.                                      *)
(* A directory entry is a record                                           *)
(*   name     the file name of the entry                                   *)
(*   entryOk  fs::read_dir yields Ok(entry) for it                         *)
(*   isDir    path.is_dir()                                                *)
(*   utf8     file_name().to_str() is Some (the name is valid UTF-8)       *)
(*   modrs    the entry file: [kind |-> "absent" | "unreadable" | "text",  *)
(*            lines |-> the lines of the file]                             *)
(***************************************************************************)
DirNames == <<"m1", "m2", "m3", "m4", "m5">>

TA  == <<"A">>
TAB == <<"A", "B">>
TB  == <<"B">>
IdX == <<"x">>
IdY == <<"y">>

PubStruct(n) == <<"pub struct ">> \o n \o <<";">>
ImplFor(n)   == <<"impl ToolModule for ">> \o n \o <<" ", "{">>
Indent(l)    == <<" ", " ">> \o l
ArgNew(id)   == <<"Arg::new(", Q>> \o id \o <<Q, ")">>
ArgOpen      == <<"cmd", ".arg(">>
ArgInline(id) == <<".arg(">> \o ArgNew(id) \o <<")">>

\* Lines of an execute body: the test of an argument of the matches, the
\* return of a failure, and the call that ends the process
IfLet(call, id) == <<"if ", "let Some(v) = ", call, Q>> \o id \o <<Q, ")", " ", "{">>
ElseIfLet(call, id) == <<"}", " ", "else ">> \o IfLet(call, id)
IfGetOne(id)  == IfLet("matches.get_one(", id)
IfGetMany(id) == IfLet("matches.get_many(", id)
IfContainsId(id) == <<"if ", "matches.contains_id(", Q>> \o id \o <<Q, ")", " ", "{">>
ReturnErr    == <<"return Err(">>
\* a line comment: rustc reads nothing of the line
Comment(l)   == <<"// ">> \o l
ProcessExit  == <<"process::exit(">>

\* The entry files the directories are drawn from
FilePool == {
    \* the layout of every module of the repository: the argument is declared
    \* over two lines, `cmd.arg(` and then `Arg::new("x")`
    \* (its execute may fail, or end the process as FileRunner::run does)
    << PubStruct(TA), ImplFor(TA), Indent(ArgOpen), Indent(ArgNew(IdX)),
       Indent(IfGetOne(IdX)), Indent(ReturnErr), Indent(ProcessExit) >>,
    \* the same module with the argument declared on one line
    << PubStruct(TB), ImplFor(TB), Indent(ArgInline(IdY)),
       Indent(IfGetOne(IdY)), Indent(ReturnErr) >>,
    \* two arguments with the same identifier, each on one line, after a
    \* first declaration that has no implementation block
    << PubStruct(TB), Indent(PubStruct(TAB)), ImplFor(TAB),
       Indent(ArgInline(IdX)), Indent(ArgInline(IdX)),
       Indent(IfGetOne(IdX)), Indent(ReturnErr) >>,
    \* declaration without implementation block
    << PubStruct(TA) >>,
    \* implementation block without declaration
    << ImplFor(TA), Indent(ArgInline(IdX)) >>,
    \* declaration of A, implementation block of another type AB
    << PubStruct(TA), ImplFor(TAB), Indent(ArgInline(IdY)) >>,
    \* a naming call with no closing quote, and one with no opening quote
    << PubStruct(TA), ImplFor(TA),
       <<".arg(", "Arg::new(", Q, "x">>, <<".arg(", "Arg::new(", "x", ")">> >>,
    \* an argument x, and an argument y that was commented out
    << PubStruct(TA), ImplFor(TA), Indent(ArgInline(IdX)),
       Indent(Comment(ArgInline(IdY))), Indent(IfGetOne(IdX)) >>
}

Absent     == [kind |-> "absent", lines |-> <<>>]
Unreadable == [kind |-> "unreadable", lines |-> <<>>]
Text(f)    == [kind |-> "text", lines |-> f]

ModRsPool == {Absent, Unreadable} \cup {Text(f) : f \in FilePool}

\* What a directory entry can be, apart from its name
EntryPool ==
    \* an entry read_dir fails on
    { [entryOk |-> FALSE, isDir |-> TRUE, utf8 |-> TRUE, modrs |-> Absent] }
    \* a plain file lying in src/modules
    \cup { [entryOk |-> TRUE, isDir |-> FALSE, utf8 |-> TRUE, modrs |-> Absent] }
    \* a directory whose name is not valid UTF-8, without entry file or with
    \* the entry file of a well-formed module
    \cup { [entryOk |-> TRUE, isDir |-> TRUE, utf8 |-> FALSE, modrs |-> m] :
              m \in {Absent, Text(<< PubStruct(TB), ImplFor(TB), Indent(ArgInline(IdY)) >>)} }
    \* a directory with a well-formed name
    \cup { [entryOk |-> TRUE, isDir |-> TRUE, utf8 |-> TRUE, modrs |-> m] : m \in ModRsPool }

Named(e, n) == [name |-> n, entryOk |-> e.entryOk, isDir |-> e.isDir,
                utf8 |-> e.utf8, modrs |-> e.modrs]

\* The trees of at most MaxDirs entries; entry i is named DirNames[i]
Trees ==
    UNION { { [i \in 1..n |-> Named(f[i], DirNames[i])] : f \in [1..n -> EntryPool] }
            : n \in 0..MaxDirs }

\* fs::read_to_string(path).ok()
ReadToString(m) == IF m.kind = "text" THEN Some(m.lines) ELSE None

\* The entry file src/modules/<module_name>/mod.rs of a tree
ModRsOf(t, module_name) ==
    LET hit == {i \in 1..Len(t) : t[i].name = module_name /\ t[i].entryOk /\ t[i].isDir}
    IN  IF hit = {} THEN Absent ELSE t[CHOOSE i \in hit : TRUE].modrs

(***************************************************************************)
(* build.rs: extract_module_info                                           *)
(***************************************************************************)
\* The struct name of a trimmed line `pub struct X;`
StructNameOf(line) == SubSeq(line, 2, Len(line) - 1)

IsStructLine(line) == StartsWith(line, <<"pub struct ">>) /\ EndsWith(line, <<";">>)

HasImplFor(content, struct_name) ==
    ContentContains(content, <<"impl ToolModule for ">> \o struct_name)

\* The first line `pub struct X;` (trimmed) decides, whatever the file
\* implements
extract_first_declared(mod_file, module_name) ==
    LET read == ReadToString(mod_file) IN
    IF ~read.some THEN None
    ELSE
      LET content == read.val
          decl == {k \in 1..Len(content) : IsStructLine(Trim(content[k]))}
          hits == {k \in decl : HasImplFor(content, StructNameOf(Trim(content[k])))}
      IN  IF hits = {} THEN None
          ELSE LET k == CHOOSE i \in decl : \A j \in decl : i <= j
               IN  Some([module_name |-> module_name,
                         struct_name |-> StructNameOf(Trim(content[k]))])

\* The first line `pub struct X;` (trimmed) whose X has the text
\* `impl ToolModule for X` somewhere in the file decides; strip_prefix and
\* strip_suffix cannot fail on a line that passed the test before them
extract_module_info(mod_file, module_name) ==
    LET read == ReadToString(mod_file) IN
    IF ~read.some THEN None
    ELSE
      LET content == read.val
          hits == {k \in 1..Len(content) :
                      /\ IsStructLine(Trim(content[k]))
                      /\ HasImplFor(content, StructNameOf(Trim(content[k])))}
      IN  IF hits = {} THEN None
          ELSE LET k == CHOOSE i \in hits : \A j \in hits : i <= j
               IN  Some([module_name |-> module_name,
                         struct_name |-> StructNameOf(Trim(content[k]))])

(***************************************************************************)
(* build.rs: extract_command_ids                                           *)
(***************************************************************************)
\* The identifier of a line that names an argument, whether or not the line
\* holds the call `.arg(`
LineCommandIdsNoArgTest(raw) ==
    LET line == Trim(raw)
        start == Find(line, <<"Arg::new(", Q>>)
    IN  IF start = 0 THEN <<>>
        ELSE LET rest == SubSeq(line, start + 2, Len(line))
                 end  == Find(rest, <<Q>>)
             IN  IF end = 0 THEN <<>> ELSE << SubSeq(rest, 1, end - 1) >>

\* The identifier one line contributes, as a sequence of zero or one element
LineCommandIds(raw) ==
    LET line == Trim(raw) IN
    IF Contains(line, <<".arg(">>) /\ Contains(line, <<"Arg::new(">>)
    THEN LET start == Find(line, <<"Arg::new(", Q>>) IN
         IF start = 0 THEN <<>>
         ELSE LET rest == SubSeq(line, start + 2, Len(line))
                  end  == Find(rest, <<Q>>)
              IN  IF end = 0 THEN <<>> ELSE << SubSeq(rest, 1, end - 1) >>
    ELSE <<>>

RECURSIVE CommandIdsFrom(_, _)
CommandIdsFrom(content, k) ==
    IF k > Len(content) THEN <<>>
    ELSE LineCommandIds(content[k]) \o CommandIdsFrom(content, k + 1)

extract_command_ids(mod_file) ==
    LET read == ReadToString(mod_file) IN
    IF ~read.some THEN None ELSE Some(CommandIdsFrom(read.val, 1))


(***************************************************************************)
(* build.rs: scan_modules_directory, one iteration of `for entry in entries`*)
(***************************************************************************)
\* to_str().unwrap() on the name of a directory panics when the name is not
\* valid UTF-8; the check comes before the look for mod.rs
ScanPanics(e) == e.entryOk /\ e.isDir /\ ~e.utf8

\* The modules vector after the iteration on entry e
ScanPush(mods, e) ==
    IF e.entryOk /\ e.isDir /\ e.modrs.kind # "absent"
    THEN LET info == extract_module_info(e.modrs, e.name)
         IN  IF info.some THEN Append(mods, info.val) ELSE mods
    ELSE mods

(***************************************************************************)
(* build.rs: generate_module_code                                          *)
(***************************************************************************)
ManifestDir == "CARGO_MANIFEST_DIR"
Ind4 == "    "
Ind8 == "        "

\* the inclusion directives written for the first module only
DeclLinesFirstOnly(mods) ==
    IF mods = <<>> THEN <<>>
    ELSE << <<"#[path = ", Q, ManifestDir, "/src/modules/", Head(mods).module_name, "/mod.rs", Q, "]">>,
            <<"pub mod ", Head(mods).module_name, ";">> >>

RECURSIVE DeclLines(_)
DeclLines(mods) ==
    IF mods = <<>> THEN <<>>
    ELSE << <<"#[path = ", Q, ManifestDir, "/src/modules/", Head(mods).module_name, "/mod.rs", Q, "]">>,
            <<"pub mod ", Head(mods).module_name, ";">> >>
         \o DeclLines(Tail(mods))

ImportLine(m) == <<"use crate::", m.module_name, "::">> \o m.struct_name \o <<";">>
BoxLine(m)    == <<Ind8, "Box::new(">> \o m.struct_name \o <<"),">>
IdLine(id)    == <<Ind8, Q>> \o id \o <<Q, ",">>

\* The identifiers written for the modules, module after module: a module
\* whose file cannot be read at this point contributes nothing
RECURSIVE AllCommandIds(_, _)
AllCommandIds(t, mods) ==
    IF mods = <<>> THEN <<>>
    ELSE LET ids == extract_command_ids(ModRsOf(t, Head(mods).module_name))
         IN  (IF ids.some THEN ids.val ELSE <<>>) \o AllCommandIds(t, Tail(mods))

\* the registration entries written from the last module to the first
RegistrationEntriesReversed(mods) ==
    [n \in 1..Len(mods) |-> BoxLine(mods[Len(mods) - n + 1])]

\* the identifiers written once each
RECURSIVE Dedup(_)
Dedup(ids) ==
    IF ids = <<>> THEN <<>>
    ELSE LET rest == Dedup(SubSeq(ids, 1, Len(ids) - 1))
         IN  IF ids[Len(ids)] \in {rest[i] : i \in 1..Len(rest)}
             THEN rest ELSE Append(rest, ids[Len(ids)])

CatalogueEntriesDedup(t, mods) == Dedup(AllCommandIds(t, mods))

\* the `Box::new(<type>),` lines, one per module, in the order of the vector
RegistrationEntries(mods) == [n \in 1..Len(mods) |-> BoxLine(mods[n])]

\* the identifiers of the lookup function: `for module in modules`, and for
\* each module `for id in command_ids`
CatalogueEntries(t, mods) == AllCommandIds(t, mods)

ModulesRsText(mods) ==
    << <<"// Auto-generated module declarations">> >> \o DeclLines(mods)

GeneratedText(t, mods) ==
       << <<"// Auto-generated imports">> >>
    \o [n \in 1..Len(mods) |-> ImportLine(mods[n])]
    \o << <<>>,
          <<"// Auto-generated module registration">>,
          <<"pub fn register_modules() -> Vec<ToolModuleBox> {">>,
          <<Ind4, "vec![">> >>
    \o RegistrationEntries(mods)
    \o << <<Ind4, "]">>, <<"}">>,
          <<>>,
          <<"// Auto-generated command detection">>,
          <<"pub fn get_all_command_ids() -> Vec<&'static str> {">>,
          <<Ind4, "vec![">> >>
    \o (LET ids == CatalogueEntries(t, mods) IN [n \in 1..Len(ids) |-> IdLine(ids[n])])
    \o << <<Ind4, "]">>, <<"}">> >>

(***************************************************************************)
(* The build script as a state machine                                     *)
(***************************************************************************)
\* no db_connect session was started
SessionOff ==
    /\ spc = "off"
    /\ stdin = <<>>
    /\ sessions = {}
    /\ query = <<>>
    /\ printed = <<>>

Perms(n) == {f \in [1..n -> 1..n] : \A i, j \in 1..n : f[i] = f[j] => i = j}

BuildInit ==
    /\ tree \in Trees
    /\ bpc = "start"
    /\ order = <<>>
    /\ pos = 1
    /\ modules = <<>>
    /\ modules_rs = <<>>
    /\ generated = <<>>
    /\ runs = 0
    /\ prev = None
    /\ rpc = "off"
    /\ registry = <<>>
    /\ cmd = <<>>
    /\ matches = {}
    /\ idx = 1
    /\ executed = FALSE
    /\ exit_code = -1
    /\ stderr = <<>>
    /\ events = <<>>
    /\ input = <<>>
    /\ encoded = <<>>
    /\ result = None
    /\ ppc = "off"
    /\ SessionOff

\* build.rs main: fs::read_dir opens the directory; the order of its entries
\* is whatever the platform and the file system give
StartScan ==
    /\ bpc = "start"
    /\ \E f \in Perms(Len(tree)) : order' = f
    /\ pos' = 1
    /\ modules' = <<>>
    /\ bpc' = "scan"
    /\ UNCHANGED <<tree, modules_rs, generated, runs, prev>>
    /\ UNCHANGED rvars
    /\ UNCHANGED pvars
    /\ UNCHANGED svars

\* one iteration of the loop of scan_modules_directory
ScanEntry ==
    /\ bpc = "scan"
    /\ pos <= Len(order)
    /\ LET e == tree[order[pos]] IN
         IF ScanPanics(e)
         THEN /\ bpc' = "panicked"
              /\ UNCHANGED <<pos, modules>>
         ELSE /\ modules' = ScanPush(modules, e)
              /\ pos' = pos + 1
              /\ UNCHANGED bpc
    /\ UNCHANGED <<tree, order, modules_rs, generated, runs, prev>>
    /\ UNCHANGED rvars
    /\ UNCHANGED pvars
    /\ UNCHANGED svars

\* What a run of generate_module_code leaves of <<modules.rs,
\* generated_modules.rs>> when one of its File::create or writeln! calls
\* fails: both files are created (and emptied) first, then modules.rs is
\* written line by line, then generated_modules.rs
PartialArtifacts(t, mods, old_modules_rs, old_generated) ==
    LET M == ModulesRsText(mods)
        G == GeneratedText(t, mods)
    IN  { <<old_modules_rs, old_generated>>, <<old_modules_rs, <<>> >> }
        \cup { <<SubSeq(M, 1, k), <<>> >> : k \in 0..(Len(M) - 1) }
        \cup { <<M, SubSeq(G, 1, k)>> : k \in 0..(Len(G) - 1) }

\* the results of File::create and writeln! dropped instead of unwrapped
AfterWritesIgnored(ok) == "built"

\* Every File::create and writeln! of generate_module_code is followed by
\* .unwrap(): the build script panics on the first one that fails
AfterWrites(ok) == IF ok THEN "built" ELSE "write_failed"

\* generate_module_code, after the scan loop ended
Generate ==
    /\ bpc = "scan"
    /\ pos > Len(order)
    /\ \/ /\ modules_rs' = ModulesRsText(modules)
          /\ generated' = GeneratedText(tree, modules)
          /\ bpc' = AfterWrites(TRUE)
       \/ /\ \E a \in PartialArtifacts(tree, modules, modules_rs, generated) :
                /\ modules_rs' = a[1]
                /\ generated' = a[2]
          /\ bpc' = AfterWrites(FALSE)
    /\ runs' = runs + 1
    /\ UNCHANGED <<tree, order, pos, modules, prev>>
    /\ UNCHANGED rvars
    /\ UNCHANGED pvars
    /\ UNCHANGED svars

\* cargo runs the build script again on the unchanged tree
Rebuild ==
    /\ bpc = "built"
    /\ runs < MaxRuns
    /\ prev' = Some(<<modules_rs, generated>>)
    /\ bpc' = "start"
    /\ order' = <<>>
    /\ pos' = 1
    /\ modules' = <<>>
    /\ UNCHANGED <<tree, modules_rs, generated, runs>>
    /\ UNCHANGED rvars
    /\ UNCHANGED pvars
    /\ UNCHANGED svars

BuildNext == StartScan \/ ScanEntry \/ Generate \/ Rebuild

SpecBuild == BuildInit /\ [][BuildNext]_vars

(***************************************************************************)
(* The generated code as the compiler reads it                             *)
(***************************************************************************)
IsImportLine(l) == Len(l) >= 1 /\ l[1] = "use crate::"
IsBoxLine(l)    == Len(l) >= 2 /\ l[1] = Ind8 /\ l[2] = "Box::new("
IsIdLine(l)     == Len(l) >= 2 /\ l[1] = Ind8 /\ l[2] = Q

ImportOf(l) == [module_name |-> l[2], struct_name |-> SubSeq(l, 4, Len(l) - 1)]
BoxTypeOf(l) == SubSeq(l, 3, Len(l) - 1)
IdOf(l)      == SubSeq(l, 3, Len(l) - 2)

\* `use crate::<module>::<type>;` lines of generated_modules.rs
Imports(gen) ==
    LET ls == SelectSeq(gen, IsImportLine) IN [n \in 1..Len(ls) |-> ImportOf(ls[n])]

\* The module a type name resolves to through the imports
ModuleOfType(gen, type) ==
    LET imp == Imports(gen)
        hit == {k \in 1..Len(imp) : imp[k].struct_name = type}
    IN  imp[CHOOSE k \in hit : \A j \in hit : k <= j].module_name

\* generated_modules.rs: register_modules()
register_modules(gen) ==
    LET Inst(l) == [type |-> BoxTypeOf(l), module |-> ModuleOfType(gen, BoxTypeOf(l))]
        ls == SelectSeq(gen, IsBoxLine)
    IN  [n \in 1..Len(ls) |-> Inst(ls[n])]

\* generated_modules.rs: get_all_command_ids()
get_all_command_ids(gen) ==
    LET ls == SelectSeq(gen, IsIdLine) IN [n \in 1..Len(ls) |-> IdOf(ls[n])]

\* rustc accepts the generated code: no two imports bring the same type name
\* into scope, and every type boxed as ToolModuleBox has an implementation
\* block of ToolModule for that very type in its module
Compiles(t, gen) ==
    LET imp == Imports(gen) IN
    /\ \A i, j \in 1..Len(imp) : imp[i].struct_name = imp[j].struct_name => i = j
    /\ \A i \in 1..Len(imp) :
         LET f == ModRsOf(t, imp[i].module_name).lines IN
         \E k \in 1..Len(f) : Trim(f[k]) = ImplFor(imp[i].struct_name)

(***************************************************************************)
(* The modules at run time (src/modules/*/mod.rs)                          *)
(***************************************************************************)
\* The identifier an `Arg::new("id")` call on a line names, if any
ArgNewId(line) ==
    LET start == Find(line, <<"Arg::new(", Q>>) IN
    IF start = 0 THEN <<>>
    ELSE LET rest == SubSeq(line, start + 2, Len(line))
             end  == Find(rest, <<Q>>)
         IN  IF end = 0 THEN <<>> ELSE << SubSeq(rest, 1, end - 1) >>

\* configure_args: the identifiers of the arguments the module adds with
\* `.arg(Arg::new("id") ...)`, the call being written on one line or, as in
\* every module of the repository, with `Arg::new` on the line after `.arg(`;
\* a call in a line comment adds nothing
RECURSIVE DeclaredFrom(_, _)
DeclaredFrom(content, k) ==
    IF k > Len(content) THEN <<>>
    ELSE LET line == Trim(content[k])
             inCall == \/ Contains(line, <<".arg(">>)
                       \/ k > 1 /\ EndsWith(Trim(content[k - 1]), <<".arg(">>)
         IN  (IF inCall /\ ~StartsWith(line, <<"// ">>) THEN ArgNewId(line) ELSE <<>>)
             \o DeclaredFrom(content, k + 1)

DeclaredArgs(t, module_name) == DeclaredFrom(ModRsOf(t, module_name).lines, 1)

Range(s) == {s[i] : i \in 1..Len(s)}

\* The subsets of S of at most n elements
RECURSIVE SubsetsUpTo(_, _)
SubsetsUpTo(S, n) ==
    IF n = 0 THEN {{}}
    ELSE LET R == SubsetsUpTo(S, n - 1) IN R \cup {r \cup {a} : r \in R, a \in S}

\* The parsed inputs a Command accepts: any of the arguments defined on it
\* may be present or absent (no argument of the repository is required, and
\* none conflicts with another)
AcceptedInputs(c) == SubsetsUpTo(Range(c), MaxPresent)

\* a configure_args that adds its arguments only to a Command no module
\* has configured yet
ConfigureArgsIfFirst(t, m, c) == IF c = <<>> THEN DeclaredArgs(t, m.module) ELSE c

\* ToolModule::configure_args of the module instance m
configure_args(t, m, c) == c \o DeclaredArgs(t, m.module)

\* ToolModule::name
name(m) == m.module

\* The identifier a line of execute tests the matches for, if any:
\* `if let Some(..) = matches.get_one::<String>("id")`, the same with
\* get_many, or `if matches.contains_id("id")`
MatchesCalls == {"matches.get_one(", "matches.get_many(", "matches.contains_id("}

TestedId(line) ==
    LET hits == {i \in 1..(Len(line) - 1) : line[i] \in MatchesCalls /\ line[i + 1] = Q} IN
    IF ~Contains(line, <<"if ">>) \/ hits = {} THEN {}
    ELSE LET start == CHOOSE i \in hits : \A j \in hits : i <= j
             rest  == SubSeq(line, start + 2, Len(line))
             end   == Find(rest, <<Q>>)
         IN  IF end = 0 THEN {} ELSE { SubSeq(rest, 1, end - 1) }

\* The identifiers the branches of the module's execute test
TestedArgs(t, module_name) ==
    LET f == ModRsOf(t, module_name).lines
    IN  UNION { TestedId(Trim(f[k])) : k \in 1..Len(f) }

\* execute acting on any argument at all
TriggeredAlways(t, m, mt) == mt # {}

\* execute acting on any argument the module registered
TriggeredByDeclared(t, m, mt) == Range(DeclaredArgs(t, m.module)) \cap mt # {}

\* execute acts when an identifier it tests is present in the matches
Triggered(t, m, mt) == TestedArgs(t, m.module) \cap mt # {}

\* How a call of execute can end: Ok(()); Err, when the body returns one or
\* propagates one with `?`; or the end of the process inside the call, when
\* the body reaches process::exit
Outcomes(t, m, mt) ==
    LET f == ModRsOf(t, m.module).lines IN
    IF ~Triggered(t, m, mt) THEN {"ok"}
    ELSE {"ok"}
         \cup (IF ContentContains(f, ReturnErr) \/ ContentContains(f, <<"?;">>)
               THEN {"err"} ELSE {})
         \cup (IF ContentContains(f, ProcessExit) THEN {"exit"} ELSE {})

\* ArgMatches::contains_id
contains_id(mt, id) == id \in mt

\* the catalogue loop looking at the first identifier only
CatalogueHitFirstOnly(gen, mt) ==
    /\ Len(get_all_command_ids(gen)) >= 1
    /\ contains_id(mt, get_all_command_ids(gen)[1])

\* main.rs: the loop over the catalogue after an execute
CatalogueHit(gen, mt) ==
    \E k \in 1..Len(get_all_command_ids(gen)) : contains_id(mt, get_all_command_ids(gen)[k])

Ev(op, i) == [op |-> op, i |-> i]

(***************************************************************************)
(* main.rs as a state machine                                              *)
(***************************************************************************)
\* get_module_registry(): ModuleRegistry::new() calls register_modules()
Startup ==
    /\ bpc = "built"
    /\ rpc = "off"
    /\ Compiles(tree, generated)
    /\ registry' = register_modules(generated)
    /\ rpc' = "configure"
    /\ idx' = 1
    /\ events' = Append(events, Ev("registry", 0))
    /\ UNCHANGED <<cmd, matches, executed, exit_code, stderr>>
    /\ UNCHANGED bvars
    /\ UNCHANGED pvars
    /\ UNCHANGED svars

\* a configure loop that takes the instances out of the registry
ConfigureDraining ==
    /\ rpc = "configure"
    /\ idx <= Len(registry)
    /\ cmd' = configure_args(tree, registry[idx], cmd)
    /\ registry' = Tail(registry)
    /\ events' = Append(events, Ev("configure", idx))
    /\ UNCHANGED <<rpc, idx, matches, executed, exit_code, stderr>>
    /\ UNCHANGED bvars
    /\ UNCHANGED pvars
    /\ UNCHANGED svars

\* one iteration of `for module in registry.get_modules() { cmd = ... }`;
\* get_modules lends the vector of the registry as a shared slice
Configure ==
    /\ rpc = "configure"
    /\ idx <= Len(registry)
    /\ cmd' = configure_args(tree, registry[idx], cmd)
    /\ idx' = idx + 1
    /\ events' = Append(events, Ev("configure", idx))
    /\ UNCHANGED <<rpc, registry, matches, executed, exit_code, stderr>>
    /\ UNCHANGED bvars
    /\ UNCHANGED pvars
    /\ UNCHANGED svars

\* a parse that does not wait for the end of the configure loop
ParseEarly ==
    /\ rpc = "configure"
    /\ \E mt \in AcceptedInputs(cmd) : matches' = mt
    /\ idx' = 1
    /\ executed' = FALSE
    /\ rpc' = IF Len(registry) = 0 THEN "finish" ELSE "execute"
    /\ events' = Append(events, Ev("parse", 0))
    /\ UNCHANGED <<registry, cmd, exit_code, stderr>>
    /\ UNCHANGED bvars
    /\ UNCHANGED pvars
    /\ UNCHANGED svars

\* cmd.get_matches() returns the matches of the process input
Parse ==
    /\ rpc = "configure"
    /\ idx > Len(registry)
    /\ \E mt \in AcceptedInputs(cmd) : matches' = mt
    /\ idx' = 1
    /\ executed' = FALSE
    /\ rpc' = IF Len(registry) = 0 THEN "finish" ELSE "execute"
    /\ events' = Append(events, Ev("parse", 0))
    /\ UNCHANGED <<registry, cmd, exit_code, stderr>>
    /\ UNCHANGED bvars
    /\ UNCHANGED pvars
    /\ UNCHANGED svars

\* cmd.get_matches() ends the process itself: --help or --version (status 0),
\* or input the schema rejects (status 2)
ParseExit ==
    /\ rpc = "configure"
    /\ idx > Len(registry)
    /\ \E c \in {0, 2} : exit_code' = c
    /\ rpc' = "parse_exit"
    /\ UNCHANGED <<registry, cmd, matches, idx, executed, stderr, events>>
    /\ UNCHANGED bvars
    /\ UNCHANGED pvars
    /\ UNCHANGED svars

\* main going on with the next module after a failed execute
AfterExecuteNoExit(outcome) ==
    CASE outcome = "ok"   -> "check"
      [] outcome = "err"  -> "check"
      [] outcome = "exit" -> "exited"

\* main calling the execute of a module again after it failed
AfterExecuteRetry(outcome) ==
    CASE outcome = "ok"   -> "check"
      [] outcome = "err"  -> "execute"
      [] outcome = "exit" -> "exited"

\* Where main goes after module.execute: on Err it calls process::exit(1); a
\* module that ends the process itself (FileRunner::run) never returns
AfterExecute(outcome) ==
    CASE outcome = "ok"   -> "check"
      [] outcome = "err"  -> "failed"
      [] outcome = "exit" -> "exited"

\* module.execute(&matches) and the handling of its result
Execute ==
    /\ rpc = "execute"
    /\ LET m == registry[idx] IN
       \E outcome \in Outcomes(tree, m, matches) :
          /\ events' =
               events \o <<Ev("execute", idx)>>
                      \o (IF Triggered(tree, m, matches) /\ outcome # "err"
                          THEN <<Ev("effect", idx)>> ELSE <<>>)
          /\ rpc' = AfterExecute(outcome)
          /\ \/ /\ outcome = "ok"
                /\ UNCHANGED <<exit_code, stderr>>
             \/ /\ outcome = "err"
                /\ stderr' = Append(stderr, [module |-> name(m), msg |-> "e"])
                /\ exit_code' = 1
             \/ /\ outcome = "exit"
                /\ \E c \in {1, 101} : exit_code' = c
                /\ UNCHANGED stderr
    /\ UNCHANGED <<registry, cmd, matches, idx, executed>>
    /\ UNCHANGED bvars
    /\ UNCHANGED pvars
    /\ UNCHANGED svars

\* a catalogue loop placed after the execution loop: nothing is consulted
\* before the last module has returned
CheckCatalogueDeferred ==
    /\ rpc = "check"
    /\ idx' = idx + 1
    /\ IF idx + 1 > Len(registry)
       THEN /\ executed' = CatalogueHit(generated, matches)
            /\ rpc' = "finish"
            /\ events' = Append(events, Ev("check", idx))
       ELSE /\ rpc' = "execute"
            /\ UNCHANGED <<executed, events>>
    /\ UNCHANGED <<registry, cmd, matches, exit_code, stderr>>
    /\ UNCHANGED bvars
    /\ UNCHANGED pvars
    /\ UNCHANGED svars

\* a check in the body of the loop that looks only for the identifiers of
\* the module just executed and keeps the last answer
CheckCatalogueOwnIds ==
    /\ rpc = "check"
    /\ LET ids == extract_command_ids(ModRsOf(tree, registry[idx].module))
       IN  executed' = (ids.some /\ \E n \in 1..Len(ids.val) : contains_id(matches, ids.val[n]))
    /\ idx' = idx + 1
    /\ rpc' = IF idx + 1 > Len(registry) THEN "finish" ELSE "execute"
    /\ events' = Append(events, Ev("check", idx))
    /\ UNCHANGED <<registry, cmd, matches, exit_code, stderr>>
    /\ UNCHANGED bvars
    /\ UNCHANGED pvars
    /\ UNCHANGED svars

\* the catalogue loop in the body of the execution loop
CheckCatalogue ==
    /\ rpc = "check"
    /\ executed' = (executed \/ CatalogueHit(generated, matches))
    /\ idx' = idx + 1
    /\ rpc' = IF idx + 1 > Len(registry) THEN "finish" ELSE "execute"
    /\ events' = Append(events, Ev("check", idx))
    /\ UNCHANGED <<registry, cmd, matches, exit_code, stderr>>
    /\ UNCHANGED bvars
    /\ UNCHANGED pvars
    /\ UNCHANGED svars

\* `if !executed { process::exit(1) }`, else main returns
Finish ==
    /\ rpc = "finish"
    /\ exit_code' = IF executed THEN 0 ELSE 1
    /\ rpc' = "done"
    /\ UNCHANGED <<registry, cmd, matches, idx, executed, stderr, events>>
    /\ UNCHANGED bvars
    /\ UNCHANGED pvars
    /\ UNCHANGED svars

RunNext == Startup \/ Configure \/ Parse \/ ParseExit \/ Execute \/ CheckCatalogue \/ Finish

Init == BuildInit

Next == StartScan \/ ScanEntry \/ Generate \/ RunNext

\* one build followed by one run of the program
Spec == Init /\ [][Next]_vars

(***************************************************************************)
(* The modules of the repository (src/modules/*/mod.rs): for each, the     *)
(* declaration, the implementation block, the arguments configure_args     *)
(* adds (`cmd.arg(` or `.arg(` on one line, `Arg::new("id")` on the next), *)
(* the tests of execute, and how execute can end other than with Ok(())    *)
(***************************************************************************)
RepoFile(type, args, body) ==
       << PubStruct(<<type>>), ImplFor(<<type>>) >>
    \o Concat([k \in 1..Len(args) |->
                 << Indent(IF k = 1 THEN ArgOpen ELSE <<".arg(">>),
                    Indent(ArgNew(<<args[k]>>)) >>])
    \o [k \in 1..Len(body) |-> Indent(body[k])]

RepoModule(dir, type, args, body) ==
    [name |-> dir, entryOk |-> TRUE, isDir |-> TRUE, utf8 |-> TRUE,
     modrs |-> Text(RepoFile(type, args, body))]

Propagate == <<"let v = ", "f(..)", "?;">>

RepoTree == <<
    RepoModule("base64_encode", "Base64EncodeModule", <<"encode", "decode">>,
        << IfGetOne(<<"encode">>), ElseIfLet("matches.get_one(", <<"decode">>), ReturnErr >>),
    RepoModule("case_convert", "CaseConvertModule", <<"case-convert">>,
        << IfGetMany(<<"case-convert">>), ReturnErr >>),
    RepoModule("checksum", "ChecksumModule", <<"checksum">>,
        << IfGetMany(<<"checksum">>), Propagate >>),
    RepoModule("color_convert", "ColorConvertModule", <<"color-convert">>,
        << IfGetMany(<<"color-convert">>), Propagate >>),
    RepoModule("convert_to_branch", "ConvertToBranchModule", <<"generate-branch">>,
        << IfGetOne(<<"generate-branch">>) >>),
    RepoModule("date_calc", "DateCalcModule", <<"date-add", "date-sub">>,
        << IfGetMany(<<"date-add">>), Propagate,
           ElseIfLet("matches.get_many(", <<"date-sub">>), Propagate >>),
    RepoModule("db_connect", "DbConnectModule", <<"connect">>,
        << IfGetOne(<<"connect">>), Propagate, ReturnErr >>),
    RepoModule("file_size", "FileSizeModule", <<"file-size">>,
        << IfGetOne(<<"file-size">>), Propagate, ReturnErr >>),
    RepoModule("flatten_text", "FlattenTextModule", <<"flatten">>,
        << IfContainsId(<<"flatten">>), IfGetOne(<<"flatten">>), ReturnErr >>),
    RepoModule("hash", "HashModule", <<"hash">>,
        << IfGetMany(<<"hash">>), ReturnErr >>),
    RepoModule("json_format", "JsonFormatModule", <<"json-pretty", "json-minify">>,
        << IfGetOne(<<"json-pretty">>), Propagate,
           ElseIfLet("matches.get_one(", <<"json-minify">>), Propagate >>),
    RepoModule("password_gen", "PasswordGenModule", <<"password">>,
        << IfContainsId(<<"password">>), ReturnErr >>),
    RepoModule("qr_generate", "QrGenerateModule", <<"qr-generate">>,
        << IfGetOne(<<"qr-generate">>), Propagate >>),
    RepoModule("regex_test", "RegexTestModule", <<"regex-test">>,
        << IfGetMany(<<"regex-test">>), Propagate >>),
    \* execute tests `run` only and reads `args` inside that branch; the
    \* branch calls FileRunner::run, which ends the process on an unknown
    \* extension and on a child that fails
    RepoModule("run_file", "RunFileModule", <<"run", "args">>,
        << IfGetOne(<<"run">>),
           <<"let args = ", "matches.get_many(", Q, "args", Q, ")">>,
           <<"FileRunner::run(file, &arg_refs)", ";">>,
           PubStruct(<<"FileRunner">>),
           ProcessExit >>),
    RepoModule("url_encode", "UrlEncodeModule", <<"url-encode", "url-decode">>,
        << IfGetOne(<<"url-encode">>), ElseIfLet("matches.get_one(", <<"url-decode">>), ReturnErr >>),
    RepoModule("url_parse", "UrlParseModule", <<"parse-url">>,
        << IfGetOne(<<"parse-url">>), Propagate, ReturnErr >>),
    RepoModule("uuid_generate", "UuidGenerateModule", <<"uuid-generate">>,
        << IfContainsId(<<"uuid-generate">>), ReturnErr >>)
    >>

\* The descriptors of a scan that meets the entries ord[1], ..., ord[k] and
\* panics on none
RECURSIVE ScanUpTo(_, _, _)
ScanUpTo(t, ord, k) ==
    IF k = 0 THEN <<>> ELSE ScanPush(ScanUpTo(t, ord, k - 1), t[ord[k]])

\* The orders the modules are taken in: by name, and the reverse
RepoOrders ==
    { [i \in 1..Len(RepoTree) |-> i], [i \in 1..Len(RepoTree) |-> Len(RepoTree) + 1 - i] }

\* the program built from the repository, before it is started
RepoInit ==
    /\ tree = RepoTree
    /\ bpc = "built"
    /\ order \in RepoOrders
    /\ pos = Len(RepoTree) + 1
    /\ modules = ScanUpTo(tree, order, Len(RepoTree))
    /\ modules_rs = ModulesRsText(modules)
    /\ generated = GeneratedText(tree, modules)
    /\ runs = 1
    /\ prev = None
    /\ rpc = "off"
    /\ registry = <<>>
    /\ cmd = <<>>
    /\ matches = {}
    /\ idx = 1
    /\ executed = FALSE
    /\ exit_code = -1
    /\ stderr = <<>>
    /\ events = <<>>
    /\ input = <<>>
    /\ encoded = <<>>
    /\ result = None
    /\ ppc = "off"
    /\ SessionOff

\* one run of the program built from the repository
SpecRepo == RepoInit /\ [][RunNext]_vars

(***************************************************************************)
(* The library functions of the modules.  A char is its code point, a      *)
(* String or &str the sequence of its chars, a byte a number in 0..255.    *)
(***************************************************************************)
Ok(v)  == [ok |-> TRUE, val |-> v]
Err(e) == [ok |-> FALSE, err |-> e]

\* char::encode_utf8
Utf8(c) ==
    IF c < 128 THEN << c >>
    ELSE IF c < 2048 THEN << 192 + (c \div 64), 128 + (c % 64) >>
    ELSE IF c < 65536
         THEN << 224 + (c \div 4096), 128 + ((c \div 64) % 64), 128 + (c % 64) >>
         ELSE << 240 + (c \div 262144), 128 + ((c \div 4096) % 64),
                 128 + ((c \div 64) % 64), 128 + (c % 64) >>

\* str::as_bytes, str::bytes
Bytes(str) == Concat([i \in 1..Len(str) |-> Utf8(str[i])])

\* String::from_utf8: the chars of a well-formed byte sequence, an error on
\* a stray or missing continuation byte, an overlong form, a surrogate or a
\* code point above U+10FFFF
RECURSIVE FromUtf8(_)
FromUtf8(b) ==
    IF b = <<>> THEN Ok(<<>>)
    ELSE
      LET n == IF b[1] < 128 THEN 1
               ELSE IF b[1] \in 194..223 THEN 2
               ELSE IF b[1] \in 224..239 THEN 3
               ELSE IF b[1] \in 240..244 THEN 4
               ELSE 0
      IN
      IF n = 0 \/ Len(b) < n \/ (\E i \in 2..n : b[i] \notin 128..191)
      THEN Err("Invalid UTF-8 sequence")
      ELSE
        LET cp == CASE n = 1 -> b[1]
                    [] n = 2 -> (b[1] - 192) * 64 + (b[2] - 128)
                    [] n = 3 -> (b[1] - 224) * 4096 + (b[2] - 128) * 64 + (b[3] - 128)
                    [] n = 4 -> (b[1] - 240) * 262144 + (b[2] - 128) * 4096
                                  + (b[3] - 128) * 64 + (b[4] - 128)
            wellFormed == CASE n = 1 -> TRUE
                            [] n = 2 -> cp >= 128
                            [] n = 3 -> cp >= 2048 /\ cp \notin 55296..57343
                            [] n = 4 -> cp \in 65536..1114111
            rest == FromUtf8(SubSeq(b, n + 1, Len(b)))
        IN  IF ~wellFormed THEN Err("Invalid UTF-8 sequence")
            ELSE IF rest.ok THEN Ok(<<cp>> \o rest.val) ELSE rest

\* char::is_whitespace
IsWhitespace(c) ==
    c \in (9..13) \cup {32, 133, 160, 5760} \cup (8192..8202) \cup {8232, 8233, 8239, 8287, 12288}

(***************************************************************************)
(* base64_encode/mod.rs                                                    *)
(***************************************************************************)
\* the string `chars`: A-Z, a-z, 0-9, '+', '/'
Base64Chars ==
    [i \in 1..64 |-> IF i <= 26 THEN 64 + i
                     ELSE IF i <= 52 THEN 70 + i
                     ELSE IF i <= 62 THEN i - 5
                     ELSE IF i = 63 THEN 43 ELSE 47]

\* chars.chars().nth(n).unwrap()
Nth(n) == Base64Chars[n + 1]

\* chars.find(c): the position of a char of the alphabet
PosOf(c) == (CHOOSE i \in 1..64 : Base64Chars[i] = c) - 1

Pad == 61

\* the body of `for chunk in bytes.chunks(3)`
RECURSIVE EncodeChunks(_)
EncodeChunks(bytes) ==
    IF bytes = <<>> THEN <<>>
    ELSE
      LET n   == IF Len(bytes) < 3 THEN Len(bytes) ELSE 3
          buf == [i \in 1..3 |-> IF i <= n THEN bytes[i] ELSE 0]
          b   == buf[1] * 65536 + buf[2] * 256 + buf[3]
      IN  << Nth((b \div 262144) % 64),
             Nth((b \div 4096) % 64),
             IF n > 1 THEN Nth((b \div 64) % 64) ELSE Pad,
             IF n > 2 THEN Nth(b % 64) ELSE Pad >>
          \o EncodeChunks(SubSeq(bytes, n + 1, Len(bytes)))

base64_encode(str) == EncodeChunks(Bytes(str))

\* every group of four chars decoded to three bytes, padded or not
PushedBytesAll(b, valid_chars) ==
    << (b \div 65536) % 256, (b \div 256) % 256, b % 256 >>

\* The bytes a group of four chars adds to the result: one, and a second
\* and third when more than two and three chars come before the padding
PushedBytes(b, valid_chars) ==
       << (b \div 65536) % 256 >>
    \o (IF valid_chars > 2 THEN << (b \div 256) % 256 >> ELSE <<>>)
    \o (IF valid_chars > 3 THEN << b % 256 >> ELSE <<>>)

\* the body of `for chunk in input_chars.chunks(4)`, on chars that passed
\* the check for invalid characters; a group that starts with the padding
\* ends the loop
RECURSIVE DecodeChunks(_)
DecodeChunks(cs) ==
    IF cs = <<>> THEN <<>>
    ELSE
      LET n     == IF Len(cs) < 4 THEN Len(cs) ELSE 4
          pads  == {i \in 1..n : cs[i] = Pad}
          valid_chars == IF pads = {} THEN n
                         ELSE (CHOOSE i \in pads : \A j \in pads : i <= j) - 1
          buf   == [i \in 1..4 |-> IF i <= valid_chars THEN PosOf(cs[i]) ELSE 0]
          b     == buf[1] * 262144 + buf[2] * 4096 + buf[3] * 64 + buf[4]
      IN  IF valid_chars = 0 THEN <<>>
          ELSE PushedBytes(b, valid_chars) \o DecodeChunks(SubSeq(cs, n + 1, Len(cs)))

RECURSIVE TrailingPads(_)
TrailingPads(cs) ==
    IF cs # <<>> /\ cs[Len(cs)] = Pad THEN 1 + TrailingPads(SubSeq(cs, 1, Len(cs) - 1)) ELSE 0

NotWhitespace(c) == ~IsWhitespace(c)

base64_decode(str) ==
    IF str = <<>> THEN Ok(<<>>)
    ELSE
      LET cs == SelectSeq(str, NotWhitespace) IN
      IF \E i \in 1..Len(cs) : cs[i] # Pad /\ cs[i] \notin Range(Base64Chars)
      THEN Err("Invalid character in base64 string")
      ELSE IF TrailingPads(cs) > 2 THEN Err("Too many padding characters")
      ELSE FromUtf8(DecodeChunks(cs))

(***************************************************************************)
(* url_encode/mod.rs                                                       *)
(***************************************************************************)
\* '+' passed through as an unreserved byte
IsUnreservedWithPlus(b) ==
    b \in (65..90) \cup (97..122) \cup (48..57) \cup {45, 95, 46, 126, 43}

\* b'A'..=b'Z' | b'a'..=b'z' | b'0'..=b'9' | b'-' | b'_' | b'.' | b'~'
IsUnreserved(b) ==
    b \in (65..90) \cup (97..122) \cup (48..57) \cup {45, 95, 46, 126}

\* one digit of {:02X}
HexDigit(d) == IF d < 10 THEN 48 + d ELSE 55 + d

EncodeByte(b) ==
    IF IsUnreserved(b) THEN << b >>
    ELSE IF b = 32 THEN << 43 >>
    ELSE << 37, HexDigit(b \div 16), HexDigit(b % 16) >>

url_encode(str) ==
    LET bytes == Bytes(str) IN Concat([i \in 1..Len(bytes) |-> EncodeByte(bytes[i])])

IsHex(c) == c \in (48..57) \cup (65..70) \cup (97..102)

HexVal(c) == IF c <= 57 THEN c - 48 ELSE IF c <= 70 THEN c - 55 ELSE c - 87

\* u8::from_str_radix(&hex_str, 16) on a string of two chars: two digits
\* in either case, or a '+' sign and one digit
FromStrRadix16(h) ==
    IF IsHex(h[1]) /\ IsHex(h[2]) THEN Ok(16 * HexVal(h[1]) + HexVal(h[2]))
    ELSE IF h[1] = 43 /\ IsHex(h[2]) THEN Ok(HexVal(h[2]))
    ELSE Err("Invalid hex digits in percent encoding")

\* the loop `while let Some(c) = chars.next()`: the bytes pushed, or the
\* first error met
RECURSIVE UrlDecodeBytes(_)
UrlDecodeBytes(cs) ==
    IF cs = <<>> THEN Ok(<<>>)
    ELSE IF cs[1] = 43
         THEN LET rest == UrlDecodeBytes(Tail(cs))
              IN  IF rest.ok THEN Ok(<<32>> \o rest.val) ELSE rest
    ELSE IF cs[1] = 37
         THEN IF Len(cs) < 2 THEN Err("Incomplete percent encoding: missing first hex digit")
              ELSE IF Len(cs) < 3 THEN Err("Incomplete percent encoding: missing second hex digit")
              ELSE LET byte == FromStrRadix16(<<cs[2], cs[3]>>)
                       rest == UrlDecodeBytes(SubSeq(cs, 4, Len(cs)))
                   IN  IF ~byte.ok THEN byte
                       ELSE IF rest.ok THEN Ok(<<byte.val>> \o rest.val) ELSE rest
    ELSE LET rest == UrlDecodeBytes(Tail(cs))
         IN  IF rest.ok THEN Ok(Utf8(cs[1]) \o rest.val) ELSE rest

url_decode(str) ==
    LET bytes == UrlDecodeBytes(str)
    IN  IF bytes.ok THEN FromUtf8(bytes.val) ELSE bytes

(***************************************************************************)
(* run_file/mod.rs: FileRunner                                             *)
(***************************************************************************)
\* vec!["go", "py", "js", "ts", "mojo", "🔥"]
get_supported_extensions ==
    << <<103, 111>>, <<112, 121>>, <<106, 115>>, <<116, 115>>,
       <<109, 111, 106, 111>>, <<128293>> >>

\* file.split('.').last(): the text after the last '.', the whole name
\* when it holds none (split always yields a first piece, so unwrap_or("")
\* never gives its default)
LastPiece(file) ==
    LET dots == {i \in 1..Len(file) : file[i] = 46}
    IN  IF dots = {} THEN file
        ELSE SubSeq(file, (CHOOSE i \in dots : \A j \in dots : i >= j) + 1, Len(file))

is_supported_file(file) == LastPiece(file) \in Range(get_supported_extensions)

(***************************************************************************)
(* convert_to_branch/mod.rs.  The two char functions are given for the     *)
(* code points up to U+00FF and for the chars of the strings below.        *)
(***************************************************************************)
\* char::is_alphanumeric: the letters and the numeric chars
IsAlphanumeric(c) ==
    c \in (48..57) \cup (65..90) \cup (97..122)
           \cup {170, 178, 179, 181, 185, 186} \cup (188..190)
           \cup (192..214) \cup (216..246) \cup (248..255) \cup {304}

\* char::to_lowercase: the chars one char becomes; U+0130 becomes 'i'
\* followed by the combining dot U+0307
Lower(c) ==
    IF c \in (65..90) \cup (192..214) \cup (216..222) THEN << c + 32 >>
    ELSE IF c = 304 THEN << 105, 775 >>
    ELSE << c >>

\* str::to_lowercase
to_lowercase(str) == Concat([i \in 1..Len(str) |-> Lower(str[i])])

Dash == 45

\* the loop that should drop a dash after a dash, dropping nothing
CollapseNone(str) == str

\* the loop over result.chars(): a dash is pushed only when the char before
\* it was not a dash
Collapse(str) ==
    LET Kept(i) == ~(str[i] = Dash /\ i > 1 /\ str[i - 1] = Dash)
        keep == {i \in 1..Len(str) : Kept(i)}
        Nth1(n) == CHOOSE i \in keep : Cardinality({j \in keep : j <= i}) = n
    IN  [n \in 1..Cardinality(keep) |-> str[Nth1(n)]]

\* str::trim_matches('-')
TrimDashes(str) ==
    LET ink == {i \in 1..Len(str) : str[i] # Dash}
    IN  IF ink = {} THEN <<>>
        ELSE SubSeq(str, CHOOSE i \in ink : \A j \in ink : i <= j,
                         CHOOSE i \in ink : \A j \in ink : i >= j)

convert_to_branch_name(str) ==
    LET lowered == to_lowercase(str)
        mapped  == [i \in 1..Len(lowered) |->
                      IF IsAlphanumeric(lowered[i]) THEN lowered[i] ELSE Dash]
    IN  TrimDashes(Collapse(mapped))

(***************************************************************************)
(* The library functions called on the strings of a bounded set            *)
(***************************************************************************)
\* 'p', 'y', '.', '+', '%', ' ', U+00E9 (two bytes), U+1F525 (four bytes)
Alphabet == {112, 121, 46, 43, 37, 32, 233, 128293}

\* 'A', 'a', '1', '-', '_', ' ', U+00C9, U+0130
BranchAlphabet == {65, 97, 49, 45, 95, 32, 201, 304}

Strings ==
    UNION { [1..n -> Alphabet] \cup [1..n -> BranchAlphabet] : n \in 0..MaxLen }

LibInit ==
    /\ tree = <<>>
    /\ bpc = "start"
    /\ order = <<>>
    /\ pos = 1
    /\ modules = <<>>
    /\ modules_rs = <<>>
    /\ generated = <<>>
    /\ runs = 0
    /\ prev = None
    /\ rpc = "off"
    /\ registry = <<>>
    /\ cmd = <<>>
    /\ matches = {}
    /\ idx = 1
    /\ executed = FALSE
    /\ exit_code = -1
    /\ stderr = <<>>
    /\ events = <<>>
    /\ input \in Strings
    /\ encoded = <<>>
    /\ result = None
    /\ ppc = "off"
    /\ SessionOff

Base64Encode ==
    /\ ppc = "off"
    /\ encoded' = base64_encode(input)
    /\ ppc' = "base64_encode"
    /\ UNCHANGED <<input, result>>
    /\ UNCHANGED bvars
    /\ UNCHANGED rvars
    /\ UNCHANGED svars

Base64Decode ==
    /\ ppc = "base64_encode"
    /\ result' = base64_decode(encoded)
    /\ ppc' = "base64_decode"
    /\ UNCHANGED <<input, encoded>>
    /\ UNCHANGED bvars
    /\ UNCHANGED rvars
    /\ UNCHANGED svars

UrlEncode ==
    /\ ppc = "off"
    /\ encoded' = url_encode(input)
    /\ ppc' = "url_encode"
    /\ UNCHANGED <<input, result>>
    /\ UNCHANGED bvars
    /\ UNCHANGED rvars
    /\ UNCHANGED svars

UrlDecode ==
    /\ ppc = "url_encode"
    /\ result' = url_decode(encoded)
    /\ ppc' = "url_decode"
    /\ UNCHANGED <<input, encoded>>
    /\ UNCHANGED bvars
    /\ UNCHANGED rvars
    /\ UNCHANGED svars

IsSupportedFile ==
    /\ ppc = "off"
    /\ result' = is_supported_file(input)
    /\ ppc' = "is_supported_file"
    /\ UNCHANGED <<input, encoded>>
    /\ UNCHANGED bvars
    /\ UNCHANGED rvars
    /\ UNCHANGED svars

ConvertToBranch ==
    /\ ppc = "off"
    /\ encoded' = convert_to_branch_name(input)
    /\ ppc' = "convert_to_branch_name"
    /\ UNCHANGED <<input, result>>
    /\ UNCHANGED bvars
    /\ UNCHANGED rvars
    /\ UNCHANGED svars

\* the function called on what it returned
ConvertAgain ==
    /\ ppc = "convert_to_branch_name"
    /\ result' = convert_to_branch_name(encoded)
    /\ ppc' = "convert_again"
    /\ UNCHANGED <<input, encoded>>
    /\ UNCHANGED bvars
    /\ UNCHANGED rvars
    /\ UNCHANGED svars

LibNext ==
    \/ Base64Encode \/ Base64Decode \/ UrlEncode \/ UrlDecode \/ IsSupportedFile
    \/ ConvertToBranch \/ ConvertAgain

SpecLib == LibInit /\ [][LibNext]_vars

(***************************************************************************)
(* db_connect/mod.rs: execute from the connection on, and the interactive  *)
(* session.  A line of standard input is a sequence of code points, with   *)
(* its line feed when it has one.                                          *)
(***************************************************************************)
\* str::trim
TrimWhitespace(str) ==
    LET ink == {i \in 1..Len(str) : ~IsWhitespace(str[i])}
    IN  IF ink = {} THEN <<>>
        ELSE SubSeq(str, CHOOSE i \in ink : \A j \in ink : i <= j,
                         CHOOSE i \in ink : \A j \in ink : i >= j)

\* u8::to_ascii_lowercase
AsciiLower(c) == IF c \in 65..90 THEN c + 32 ELSE c

\* str::eq_ignore_ascii_case
eq_ignore_ascii_case(a, b) ==
    /\ Len(a) = Len(b)
    /\ \A i \in 1..Len(a) : AsciiLower(a[i]) = AsciiLower(b[i])

StrExit == << 101, 120, 105, 116 >>
StrQuit == << 113, 117, 105, 116 >>

IsExitOrQuit(q) == eq_ignore_ascii_case(q, StrExit) \/ eq_ignore_ascii_case(q, StrQuit)

\* "exit\n", "EXIT\n", " Quit \n", "quit" with no line feed, the empty line
\* "\n", the queries "select 1\n" and "exit;\n"
LinePool == {
    << 101, 120, 105, 116, 10 >>,
    << 69, 88, 73, 84, 10 >>,
    << 32, 81, 117, 105, 116, 32, 10 >>,
    << 113, 117, 105, 116 >>,
    << 10 >>,
    << 115, 101, 108, 101, 99, 116, 32, 49, 10 >>,
    << 101, 120, 105, 116, 59, 10 >>
}

\* what standard input holds before its end
Stdins == UNION { [1..n -> LinePool] : n \in 0..MaxLines }

SessionInit ==
    /\ tree = <<>>
    /\ bpc = "start"
    /\ order = <<>>
    /\ pos = 1
    /\ modules = <<>>
    /\ modules_rs = <<>>
    /\ generated = <<>>
    /\ runs = 0
    /\ prev = None
    /\ rpc = "off"
    /\ registry = <<>>
    /\ cmd = <<>>
    /\ matches = {}
    /\ idx = 1
    /\ executed = FALSE
    /\ exit_code = -1
    /\ stderr = <<>>
    /\ events = <<>>
    /\ input = <<>>
    /\ encoded = <<>>
    /\ result = None
    /\ ppc = "off"
    /\ spc = "off"
    /\ stdin \in Stdins
    /\ sessions = {}
    /\ query = <<>>
    /\ printed = <<>>

\* execute: establish_connection(..).await, then the client stored under
\* "current"; a failed connection is reported and returned
EstablishConnection ==
    /\ spc = "off"
    /\ \/ /\ sessions' = sessions \cup {"current"}
          /\ spc' = "prompt"
          /\ UNCHANGED printed
       \/ /\ printed' = Append(printed, "failed_to_connect")
          /\ spc' = "returned_err"
          /\ UNCHANGED sessions
    /\ UNCHANGED <<stdin, query>>
    /\ UNCHANGED bvars
    /\ UNCHANGED rvars
    /\ UNCHANGED pvars

\* print!("sql> "); io::stdout().flush()?
Prompt ==
    /\ spc = "prompt"
    /\ \E flushed \in BOOLEAN : spc' = IF flushed THEN "read" ELSE "returned_err"
    /\ UNCHANGED <<stdin, sessions, query, printed>>
    /\ UNCHANGED bvars
    /\ UNCHANGED rvars
    /\ UNCHANGED pvars

\* io::stdin().read_line(&mut input)?; let query = input.trim();
\* at the end of input read_line returns Ok(0) and leaves input empty
ReadLine ==
    /\ spc = "read"
    /\ \/ /\ stdin # <<>>
          /\ query' = TrimWhitespace(Head(stdin))
          /\ stdin' = Tail(stdin)
          /\ spc' = "dispatch"
       \/ /\ stdin = <<>>
          /\ query' = TrimWhitespace(<<>>)
          /\ stdin' = stdin
          /\ spc' = "dispatch"
       \/ /\ spc' = "returned_err"
          /\ UNCHANGED <<stdin, query>>
    /\ UNCHANGED <<sessions, printed>>
    /\ UNCHANGED bvars
    /\ UNCHANGED rvars
    /\ UNCHANGED pvars

\* if query.is_empty() { continue; }
Continue ==
    /\ spc = "dispatch"
    /\ query = <<>>
    /\ spc' = "prompt"
    /\ UNCHANGED <<stdin, sessions, query, printed>>
    /\ UNCHANGED bvars
    /\ UNCHANGED rvars
    /\ UNCHANGED pvars

\* exit or quit: println!("Goodbye!"); break; then Ok(())
Goodbye ==
    /\ spc = "dispatch"
    /\ query # <<>>
    /\ IsExitOrQuit(query)
    /\ printed' = Append(printed, "goodbye")
    /\ spc' = "returned_ok"
    /\ UNCHANGED <<stdin, sessions, query>>
    /\ UNCHANGED bvars
    /\ UNCHANGED rvars
    /\ UNCHANGED pvars

\* the query sent to the current client: its rows, no result, or the error
\* of the query, each printed before the next prompt; without a current
\* client the loop ends
RunQuery ==
    /\ spc = "dispatch"
    /\ query # <<>>
    /\ ~IsExitOrQuit(query)
    /\ IF "current" \in sessions
       THEN /\ \E r \in {"csv", "no_results", "query_error"} : printed' = Append(printed, r)
            /\ spc' = "prompt"
       ELSE /\ printed' = Append(printed, "no_connection")
            /\ spc' = "returned_ok"
    /\ UNCHANGED <<stdin, sessions, query>>
    /\ UNCHANGED bvars
    /\ UNCHANGED rvars
    /\ UNCHANGED pvars

SessionNext ==
    EstablishConnection \/ Prompt \/ ReadLine \/ Continue \/ Goodbye \/ RunQuery

\* the session runs on a thread of its own runtime (rt.block_on): a step
\* that can be taken is taken
SpecSession == SessionInit /\ [][SessionNext]_vars /\ WF_vars(SessionNext)

(***************************************************************************)
(* Properties                                                              *)
(***************************************************************************)
\* The entry file holds a declaration line `pub struct X;` and the text
\* `impl ToolModule for X`
HasPattern(f) ==
    \E k \in 1..Len(f) : /\ IsStructLine(Trim(f[k]))
                         /\ HasImplFor(f, StructNameOf(Trim(f[k])))

\* A sub-directory of src/modules whose entry file holds the pattern
EligibleDir(e) == e.entryOk /\ e.isDir /\ e.modrs.kind = "text" /\ HasPattern(e.modrs.lines)

AllEligible == \A i \in 1..Len(tree) : EligibleDir(tree[i])

Catalogue == Range(get_all_command_ids(generated))

DescriptorsOf(n) == {k \in 1..Len(modules) : modules[k].module_name = n}

\* C1: when every entry of src/modules is an eligible module, the registry
\* holds one instance per module and the identifier catalogue contains every
\* identifier the discovered modules register in configure_args.
C1_CatalogueHoldsDeclared ==
    (bpc = "built" /\ AllEligible) =>
        /\ Len(register_modules(generated)) = Len(tree)
        /\ \A k \in 1..Len(modules) :
             Range(DeclaredArgs(tree, modules[k].module_name)) \subseteq Catalogue

Terminated == rpc \in {"done", "failed", "exited"}

\* every module's execute was called and returned Ok
AllExecuteOk ==
    /\ \A k \in 1..Len(registry) : Ev("execute", k) \in Range(events)
    /\ stderr = <<>>
    /\ rpc # "exited"

\* C2: a run that got past argument parsing exits with status 0 exactly when
\* every execute returned success and the parsed input holds an identifier
\* of the catalogue; otherwise it exits with a non-zero status.
C2_ExitStatus ==
    Terminated =>
        /\ exit_code # -1
        /\ exit_code = 0 <=> (AllExecuteOk /\ Catalogue \cap matches # {})

C2_Witness ==
    /\ rpc = "done" /\ exit_code = 0
    /\ Len(registry) = 2
    /\ \E k \in 1..Len(registry) : ~Triggered(tree, registry[k], matches)

\* C3: a failing execute at position idx is reported once, with the name of
\* that module, the process ends there with a non-zero status, and no module
\* after idx is executed.
C3_FirstFailureFatal ==
    /\ Len(stderr) <= 1
    /\ rpc = "failed" => stderr # <<>>
    /\ stderr # <<>> =>
        /\ rpc = "failed"
        /\ exit_code \notin {0, -1}
        /\ stderr[1].module = name(registry[idx])
        /\ events[Len(events)] = Ev("execute", idx)
        /\ \A k \in 1..Len(events) : events[k].op = "execute" => events[k].i <= idx
        /\ ~ENABLED RunNext

C3_Witness == rpc = "failed" /\ idx < Len(registry)

ScanEnded == bpc \in {"built", "panicked"}

\* C4: every sub-directory whose entry file holds the pattern gets exactly
\* one descriptor, named after the directory, and no two descriptors of a
\* scan have the same module_name.
C4_EligibleDirDescribed ==
    ScanEnded =>
        /\ \A i \in 1..Len(tree) :
             EligibleDir(tree[i]) => Cardinality(DescriptorsOf(tree[i].name)) = 1
        /\ \A j, k \in 1..Len(modules) :
             modules[j].module_name = modules[k].module_name => j = k

\* A sub-directory whose entry file is missing, or lacks the declaration or
\* the implementation-block evidence
IneligibleDir(e) ==
    e.entryOk /\ e.isDir /\ ~(e.modrs.kind = "text" /\ HasPattern(e.modrs.lines))

\* The descriptors of a scan that meets the entries ord[k], ord[k+1], ...
RECURSIVE ScanFrom(_, _, _)
ScanFrom(t, ord, k) ==
    IF k > Len(ord) THEN <<>>
    ELSE LET info == extract_module_info(t[ord[k]].modrs, t[ord[k]].name)
         IN  (IF t[ord[k]].entryOk /\ t[ord[k]].isDir /\ info.some
              THEN <<info.val>> ELSE <<>>) \o ScanFrom(t, ord, k + 1)

IsOtherIndex(i) == ~IneligibleDir(tree[i])

\* C5: a directory without the pattern gets no descriptor and raises no
\* error, and the scan of the other directories is what it would be
\* without it.
C5_IneligibleDirSkipped ==
    /\ \A i \in 1..Len(tree) :
         IneligibleDir(tree[i]) => DescriptorsOf(tree[i].name) = {}
    /\ bpc = "panicked" => ~IneligibleDir(tree[order[pos]])
    /\ bpc = "built" => modules = ScanFrom(tree, SelectSeq(order, IsOtherIndex), 1)

\* C6: the type_name X of every descriptor is declared in the entry file by
\* a line `pub struct X;` and bound to ToolModule by an implementation block
\* of X itself, `impl ToolModule for X {`.
C6_DescriptorTypeImplemented ==
    \A k \in 1..Len(modules) :
        LET f == ModRsOf(tree, modules[k].module_name).lines
            X == modules[k].struct_name
        IN  /\ \E i \in 1..Len(f) : Trim(f[i]) = PubStruct(X)
            /\ \E i \in 1..Len(f) : Trim(f[i]) = ImplFor(X)

\* C7: a second build run over the unchanged tree writes the same modules.rs
\* and generated_modules.rs as the run before.
C7_SameArtifacts ==
    (bpc = "built" /\ prev.some) => prev.val = <<modules_rs, generated>>

\* C8: the registry holds as many instances as the scan found descriptors,
\* and the instance at position k is of the type of the k-th descriptor.
C8_RegistryMatchesDescriptors ==
    /\ bpc = "built" =>
         /\ Len(SelectSeq(generated, IsBoxLine)) = Len(modules)
         /\ \A k \in 1..Len(modules) :
              BoxTypeOf(SelectSeq(generated, IsBoxLine)[k]) = modules[k].struct_name
    /\ rpc # "off" =>
         /\ Len(registry) = Len(modules)
         /\ \A k \in 1..Len(modules) :
              /\ registry[k].type = modules[k].struct_name
              /\ registry[k].module = modules[k].module_name

C8_Witness ==
    /\ rpc # "off"
    /\ Len(registry) >= 2
    /\ registry[1].type # registry[2].type

\* The identifiers the Extractor gives for the k-th descriptor
ExtractedOf(k) ==
    LET ids == extract_command_ids(ModRsOf(tree, modules[k].module_name))
    IN  IF ids.some THEN ids.val ELSE <<>>

Count(seq, x) == Cardinality({i \in 1..Len(seq) : seq[i] = x})

RECURSIVE SumCount(_, _)
SumCount(k, x) == IF k = 0 THEN 0 ELSE Count(ExtractedOf(k), x) + SumCount(k - 1, x)

\* C9: the lookup function returns the lists of the Extractor, one after the
\* other in the order of the descriptors, each in file order, and an
\* identifier extracted n times appears n times.
C9_CatalogueIsConcatenation ==
    bpc = "built" =>
        /\ get_all_command_ids(generated)
             = Concat([k \in 1..Len(modules) |-> ExtractedOf(k)])
        /\ \A x \in {IdX, IdY} :
             Count(get_all_command_ids(generated), x) = SumCount(Len(modules), x)

C9_Witness ==
    /\ bpc = "built"
    /\ Len(modules) >= 2
    /\ Count(get_all_command_ids(generated), IdX) = 2
    /\ Count(get_all_command_ids(generated), IdY) = 1
    /\ get_all_command_ids(generated)[1] = IdY

\* C10: no directory entry aborts the scan: the build script never panics in
\* the scan, and every eligible directory with a well-formed name is among
\* the descriptors once the scan is over.
C10_ScanNeverAborts ==
    /\ bpc # "panicked"
    /\ ScanEnded =>
         \A i \in 1..Len(tree) :
            (EligibleDir(tree[i]) /\ tree[i].utf8) => DescriptorsOf(tree[i].name) # {}

\* C11: a failed File::create or writeln! of the generator aborts the build
\* script, after which nothing runs; a build that completed has the complete
\* modules.rs and generated_modules.rs of the scanned descriptors: one
\* inclusion directive, one import and one registration entry per descriptor,
\* and the complete lookup function.
C11_FailedWriteAborts ==
    /\ bpc = "write_failed" => (rpc = "off" /\ ~ENABLED Next)
    /\ bpc = "built" =>
         /\ modules_rs = ModulesRsText(modules)
         /\ generated = GeneratedText(tree, modules)
         /\ Len(modules_rs) = 1 + 2 * Len(modules)
         /\ Len(SelectSeq(generated, IsImportLine)) = Len(modules)
         /\ Len(SelectSeq(generated, IsBoxLine)) = Len(modules)
         /\ get_all_command_ids(generated) = AllCommandIds(tree, modules)
         /\ generated[Len(generated)] = <<"}">>

C11_Witness ==
    /\ bpc = "write_failed"
    /\ Len(modules) = 2
    /\ modules_rs = ModulesRsText(modules)
    /\ Len(SelectSeq(generated, IsBoxLine)) = 1

Executed(k) == Ev("execute", k) \in Range(events)

Effect(k) == Ev("effect", k) \in Range(events)

\* C12: a run whose parsed input holds no identifier of the catalogue ends
\* with a non-zero status and without any module having performed its side
\* effect.
C12_NoCatalogueIdNoEffect ==
    (Terminated /\ Catalogue \cap matches = {}) =>
        /\ exit_code \notin {0, -1}
        /\ \A k \in 1..Len(registry) : ~Effect(k)

\* The positions of the modules that registered an identifier of the input
OwnersOf(mt) ==
    {k \in 1..Len(registry) : Range(DeclaredArgs(tree, registry[k].module)) \cap mt # {}}

ExactlyOneOwner == Cardinality(OwnersOf(matches)) = 1

TheOwner == CHOOSE k \in OwnersOf(matches) : TRUE

JustExecuted == rpc \in {"check", "failed", "exited"}

\* C14 as stated: a called execute performs the side effect of its module
\* exactly when an argument the module registered in configure_args is in
\* the parsed input.
C14_ActsOnRegisteredArgs ==
    JustExecuted =>
        (Effect(idx) <=> Range(DeclaredArgs(tree, registry[idx].module)) \cap matches # {})

\* The arguments that make execute act: every registered argument, except
\* for run_file, where `args` alone does not
ActingArgs(module_name) ==
    IF module_name = "run_file" THEN { <<"run">> }
    ELSE Range(DeclaredArgs(tree, module_name))

\* C14 amended: a called execute acts (performs the side effect of its
\* module, returns a failure or ends the process) exactly when one of the
\* arguments it tests is in the parsed input; these are all the arguments the
\* module registered, except for run_file, which tests `run` only.
C14_ActsOnTestedArgs ==
    JustExecuted =>
        ((Effect(idx) \/ rpc \in {"failed", "exited"})
            <=> ActingArgs(registry[idx].module) \cap matches # {})

C14_Witness ==
    /\ rpc = "check"
    /\ matches = { <<"args">>, <<"decode">> }
    /\ registry[idx].module = "run_file"
    /\ ~Effect(idx)
    /\ \E k \in 1..(idx - 1) : registry[k].module = "base64_encode" /\ Effect(k)

\* C15: a run that got past argument parsing ends in Done, after every module
\* was executed, or in Failed, after an execute returned a failure, and ends
\* nowhere else: never inside a call of execute.
C15_TerminalStates ==
    (exit_code # -1 /\ Ev("parse", 0) \in Range(events)) =>
        \/ rpc = "done" /\ \A k \in 1..Len(registry) : Executed(k)
        \/ rpc = "failed" /\ stderr # <<>>

\* The Command after configure_args of reg[1], ..., reg[k], in that order
RECURSIVE FoldConfigure(_, _, _)
FoldConfigure(t, reg, k) ==
    IF k = 0 THEN <<>> ELSE configure_args(t, reg[k], FoldConfigure(t, reg, k - 1))

\* The registry of the build that meets the directories in the order of
\* their names
RegistryByName ==
    register_modules(GeneratedText(tree, ScanUpTo(tree, [i \in 1..Len(tree) |-> i], Len(tree))))

\* the configure loop is over, get_matches not yet called
SchemaBuilt == rpc = "configure" /\ idx > Len(registry)

\* C16: the schema the configure loop ends with is a function of the module
\* list, it accepts the same inputs as the schema folded over the same
\* modules in the order of their names, and what a module adds to the
\* schema does not depend on what was configured before it.
C16_SchemaOrderIndependent ==
    SchemaBuilt =>
        /\ cmd = FoldConfigure(tree, registry, Len(registry))
        /\ AcceptedInputs(cmd)
             = AcceptedInputs(FoldConfigure(tree, RegistryByName, Len(RegistryByName)))
        /\ \A k \in 1..Len(registry) :
             configure_args(tree, registry[k], cmd)
               = cmd \o configure_args(tree, registry[k], <<>>)

C16_Witness ==
    /\ SchemaBuilt
    /\ Len(registry) = 2
    /\ registry # RegistryByName
    /\ DeclaredArgs(tree, registry[1].module) = <<IdY>>
    /\ DeclaredArgs(tree, registry[2].module) = <<IdX>>

\* C17: the registry is built by one call of register_modules when the
\* process starts, and no step of the process changes it afterwards: every
\* loop over get_modules meets the same instances in the same order.
C17_RegistryImmutable ==
    /\ [](rpc # "off" =>
            /\ registry = register_modules(generated)
            /\ Count(events, Ev("registry", 0)) = 1)
    /\ [][rpc # "off" => registry' = registry]_vars

C17_Witness ==
    /\ rpc = "done"
    /\ Len(registry) = 2
    /\ registry[1] # registry[2]
    /\ Executed(1) /\ Executed(2)

\* C18: decoding the base64 encoding of a string gives Ok of that string,
\* whatever the number of its bytes modulo 3, the empty string included.
C18_Base64RoundTrip ==
    ppc = "base64_decode" =>
        /\ encoded = base64_encode(input)
        /\ Len(encoded) = 4 * ((Len(Bytes(input)) + 2) \div 3)
        /\ result = Ok(input)

C18_Witness ==
    /\ ppc = "base64_decode"
    /\ Len(Bytes(input)) % 3 = 2
    /\ \E i \in 1..Len(input) : input[i] >= 128
    /\ encoded[Len(encoded)] = Pad
    /\ result = Ok(input)

\* C19: decoding the URL encoding of a string gives Ok of that string, for
\* strings holding '+', '%', blanks and chars outside ASCII as for others.
C19_UrlRoundTrip ==
    ppc = "url_decode" =>
        /\ encoded = url_encode(input)
        /\ result = Ok(input)

C19_Witness ==
    /\ ppc = "url_decode"
    /\ {43, 37, 233} \subseteq Range(input)
    /\ result = Ok(input)

C21_BranchNameShape ==
    ppc = "convert_again" =>
        /\ \A i \in 1..Len(encoded) :
             \/ encoded[i] = Dash
             \/ IsAlphanumeric(encoded[i]) /\ Lower(encoded[i]) = << encoded[i] >>
        /\ encoded # <<>> => (encoded[1] # Dash /\ encoded[Len(encoded)] # Dash)
        /\ \A i \in 1..(Len(encoded) - 1) : ~(encoded[i] = Dash /\ encoded[i + 1] = Dash)
        /\ (\A i \in 1..Len(input) : ~IsAlphanumeric(input[i])) => encoded = <<>>
        /\ result = encoded

C21_Witness ==
    /\ ppc = "convert_again"
    /\ input = << 304, 45, 65 >>
    /\ encoded = << 105, 45, 97 >>
    /\ result = encoded

\* the positions of the events of one operation
At(op) == {p \in 1..Len(events) : events[p].op = op}

\* C22, as stated: the catalogue is consulted only after the execute of
\* every module has returned, so no check precedes an execute.
C22_ChecksAfterAllExecutes ==
    \A p \in At("check") : \A q \in At("execute") : q < p

\* C22, amended: the catalogue is consulted in the body of the execution
\* loop, once after the execute of each module has returned and before the
\* execute of the next module is called.
C22_CheckAfterEachExecute ==
    /\ \A p \in At("check") :
         /\ \E q \in At("execute") : q < p /\ events[q].i = events[p].i
         /\ \A q \in At("execute") : events[q].i > events[p].i => q > p
    /\ \A q \in At("execute") :
         events[q].i > 1 =>
            \E p \in At("check") : p < q /\ events[p].i = events[q].i - 1

C22_Witness ==
    \E p \in At("check") : \E q \in At("execute") :
        p < q /\ events[p].i = 1 /\ events[q].i = 2

\* C23: configure_args is called once on each module in Registry order,
\* all these calls come before the one parse, no execute comes before the
\* parse, and the execute calls come one after another in Registry order.
C23_ConfigureParseExecuteOrder ==
    /\ \A p, q \in At("configure") : p < q => events[p].i < events[q].i
    /\ \A p \in At("configure") : events[p].i \in 1..Len(registry)
    /\ Cardinality(At("parse")) <= 1
    /\ \A q \in At("parse") :
         /\ \A k \in 1..Len(registry) : Count(events, Ev("configure", k)) = 1
         /\ \A p \in At("configure") : p < q
    /\ \A p \in At("execute") :
         /\ \E q \in At("parse") : q < p
         /\ events[p].i \in 1..Len(registry)
         /\ events[p].i > 1 =>
               \E q \in At("execute") : q < p /\ events[q].i = events[p].i - 1
    /\ \A p, q \in At("execute") : p < q => events[p].i < events[q].i

C23_Witness ==
    /\ rpc = "done"
    /\ Len(registry) = 2
    /\ Executed(1) /\ Executed(2)
    /\ Count(events, Ev("configure", 2)) = 1

\* the lines of the entry file of descriptor k
EntryFileOf(k) == ModRsOf(tree, modules[k].module_name).lines

\* the lines of a file that declare a zero-field public type
Declarations(f) == {j \in 1..Len(f) : IsStructLine(Trim(f[j]))}

First(S) == CHOOSE i \in S : \A j \in S : i <= j

\* C24, as stated: one descriptor per directory at most, whose type_name is
\* the first zero-field public type the entry file declares.
C24_FirstDeclaredType ==
    \A k \in 1..Len(modules) :
        /\ Cardinality(DescriptorsOf(modules[k].module_name)) = 1
        /\ LET f == EntryFileOf(k) IN
           /\ Declarations(f) # {}
           /\ modules[k].struct_name = StructNameOf(Trim(f[First(Declarations(f))]))

\* C24, amended: one descriptor per directory at most, whose type_name is
\* the first declared zero-field public type for which the entry file holds
\* the text `impl ToolModule for <type>`; declarations before it that have
\* no such text are passed over.
C24_FirstImplementedType ==
    \A k \in 1..Len(modules) :
        /\ Cardinality(DescriptorsOf(modules[k].module_name)) = 1
        /\ LET f == EntryFileOf(k)
               impl == {j \in Declarations(f) :
                          HasImplFor(f, StructNameOf(Trim(f[j])))}
           IN  /\ impl # {}
               /\ modules[k].struct_name = StructNameOf(Trim(f[First(impl)]))

C24_Witness ==
    /\ bpc = "built"
    /\ \E k \in 1..Len(modules) :
         /\ modules[k].struct_name = TAB
         /\ Cardinality(Declarations(EntryFileOf(k))) = 2
         /\ StructNameOf(Trim(EntryFileOf(k)[First(Declarations(EntryFileOf(k)))])) = TB

\* the places of a line where `Arg::new("` stands
NamingCalls(l) == {s \in 1..(Len(l) - 1) : l[s] = "Arg::new(" /\ l[s + 1] = Q}

\* the quotes of a line after place s + 1
QuotesAfter(l, s) == {e \in (s + 2)..Len(l) : l[e] = Q}

\* a line that holds `.arg(` and `Arg::new(` and a quoted name after
\* `Arg::new("`
NamesArgument(l) ==
    /\ \E p \in 1..Len(l) : l[p] = ".arg("
    /\ \E p \in 1..Len(l) : l[p] = "Arg::new("
    /\ \E s \in NamingCalls(l) : QuotesAfter(l, s) # {}

\* the text between the two quotes
NameBetween(l) ==
    LET s == First(NamingCalls(l)) IN SubSeq(l, s + 2, First(QuotesAfter(l, s)) - 1)

ExpectedIds(f) ==
    Concat([j \in 1..Len(f) |->
              IF NamesArgument(f[j]) THEN << NameBetween(f[j]) >> ELSE <<>>])

\* C25: the identifiers extracted from an entry file are, in file order,
\* the quoted names of the lines that hold `.arg(`, `Arg::new(` and a closed
\* quote after `Arg::new("`; every other line gives nothing, and the list
\* may be empty.
C25_ExtractorLineRule ==
    bpc = "built" =>
        get_all_command_ids(generated)
            = Concat([k \in 1..Len(modules) |-> ExpectedIds(EntryFileOf(k))])

C25_Witness ==
    /\ bpc = "built"
    /\ \E k \in 1..Len(modules) :
         /\ ExpectedIds(EntryFileOf(k)) = <<>>
         /\ \E j \in 1..Len(EntryFileOf(k)) :
              Contains(EntryFileOf(k)[j], <<".arg(", "Arg::new(">>)
    /\ \E k \in 1..Len(modules) : ExpectedIds(EntryFileOf(k)) = << IdX, IdX >>
    /\ get_all_command_ids(generated) = << IdX, IdX >>

\* C26: the execute of a module is called at most once in a run, and when
\* the module at position i fails, each module before it was executed once
\* and the effects of those that acted are still there, once each.
C26_NoRetryNoUndo ==
    /\ \A k \in 1..Len(registry) : Count(events, Ev("execute", k)) <= 1
    /\ rpc = "failed" =>
         /\ Count(events, Ev("execute", idx)) = 1
         /\ ~Effect(idx)
         /\ \A k \in 1..(idx - 1) :
              /\ Count(events, Ev("execute", k)) = 1
              /\ Count(events, Ev("effect", k))
                   = IF Triggered(tree, registry[k], matches) THEN 1 ELSE 0
         /\ \A k \in (idx + 1)..Len(registry) : ~Executed(k)

C26_Witness ==
    /\ rpc = "failed"
    /\ idx = 2
    /\ Effect(1)
    /\ Count(events, Ev("execute", 1)) = 1

IsPathLine(l)   == Len(l) >= 5 /\ l[1] = "#[path = "
IsPubModLine(l) == Len(l) >= 2 /\ l[1] = "pub mod "

\* C27: after a build, the inclusion directives, the import lines and the
\* Box::new entries each have one entry per descriptor, in scan order, and
\* the k-th entry of each names the k-th descriptor.
C27_SectionsDescribeSameList ==
    bpc = "built" =>
        LET paths == SelectSeq(modules_rs, IsPathLine)
            mods  == SelectSeq(modules_rs, IsPubModLine)
            boxes == SelectSeq(generated, IsBoxLine)
            n     == Len(modules)
        IN  /\ Len(paths) = n /\ Len(mods) = n
            /\ Len(Imports(generated)) = n /\ Len(boxes) = n
            /\ \A k \in 1..n :
                 /\ modules_rs[2 * k] = paths[k]
                 /\ modules_rs[2 * k + 1] = mods[k]
                 /\ paths[k][5] = modules[k].module_name
                 /\ mods[k][2] = modules[k].module_name
                 /\ Imports(generated)[k] = modules[k]
                 /\ BoxTypeOf(boxes[k]) = modules[k].struct_name

C27_Witness ==
    /\ bpc = "built"
    /\ Len(modules) = 2
    /\ modules[1].struct_name # modules[2].struct_name
    /\ Len(SelectSeq(modules_rs, IsPubModLine)) = 2
    /\ Len(SelectSeq(generated, IsBoxLine)) = 2

\* the status of one check made after the loop
PostLoopStatus == IF Catalogue \cap matches # {} THEN 0 ELSE 1

\* C28: when no execute fails, the exit status of a run over a Registry of
\* at least one module is the status of one check, made after the loop, of
\* whether the parsed input holds an identifier of the catalogue; over an
\* empty Registry the status is not zero.
C28_PostLoopCheckEquivalent ==
    rpc = "done" =>
        /\ Len(registry) >= 1 => exit_code = PostLoopStatus
        /\ Len(registry) = 0 => exit_code # 0
        /\ Cardinality(At("check")) = Len(registry)

C28_Witness ==
    /\ rpc = "done"
    /\ Len(registry) = 2
    /\ Cardinality(At("check")) = 2
    /\ exit_code = 0
    /\ PostLoopStatus = 0
    /\ matches \cap Range(ExtractedOf(2)) = {}

\* the identifiers main looks up in one pass over the catalogue: all of them
\* up to the first one present in the matches
LookedUp ==
    LET ids  == get_all_command_ids(generated)
        hits == {k \in 1..Len(ids) : contains_id(matches, ids[k])}
        last == IF hits = {} THEN Len(ids) ELSE First(hits)
    IN  {ids[k] : k \in 1..last}

\* the arguments the modules of the Registry define in configure_args
DefinedByRegistry ==
    UNION {Range(DeclaredArgs(tree, registry[k].module)) : k \in 1..Len(registry)}

\* C29: every identifier of the catalogue is an argument some module of the
\* Registry adds in configure_args, and every identifier main looks up is
\* defined in the schema that was parsed.
C29_CatalogueWithinSchema ==
    rpc = "check" =>
        /\ Catalogue \subseteq DefinedByRegistry
        /\ LookedUp \subseteq Range(cmd)

Returned == spc \in {"returned_ok", "returned_err"}

\* C30: the session ends once its input ends: after an exit or quit line,
\* and when standard input is exhausted, execute returns.
C30_SessionEndsWithInput ==
    /\ (spc = "dispatch" /\ IsExitOrQuit(query)) ~> Returned
    /\ (spc = "read" /\ stdin = <<>>) ~> Returned

====
